---- MODULE Spec2Model ----
(***************************************************************************)
(* Orchestration core of the multi-agent workflows of agent.py and         *)
(* p_agent.py: agent descriptors, retry options and composite structure    *)
(* are taken from the source; the engine that executes them (sequential    *)
(* and parallel composites, templating, retry wrapper, tool adapter,       *)
(* runner) is the imported agent framework, modelled from its contract.    *)
(***************************************************************************)
EXTENDS Naturals, Integers, Sequences, FiniteSets, TLC

\* ------------------------------------------------------------------ bounds
MaxRuns == 2

\* the tool-use loop's iteration bound (implementation-defined, finite)
MaxToolIters == 2

\* ------------------------------------------------------- external inputs
\* the queries the three programs pass to run_debug
research_query ==
    "What are the latest advancements in quantum computing and what do they mean for AI?"
blog_query ==
    "Write a blog post about the benefits of multi-agent systems for software developers"
briefing_query ==
    "Run the daily executive briefing on Tech, Health, and Finance"
queries ==
    <<"What is Agent Development Kit from Google? What languages is the SDK available in?",
      "What's the current weather in London?">>
Inputs == {research_query, blog_query, briefing_query, queries[1], queries[2]}
Texts == {"", "text"}
Absent == "<absent>"
UserInputKey == "user_input"
TransientCodes == {429, 500, 503, 504}
OtherCodes == {400}
FailureCodes == TransientCodes \cup OtherCodes

\* ---------------------------------------------------------- retry options
\* mutant: the base-2 options of p_agent.py pasted into agent.py
retry_config_base2 ==
    [attempts |-> 5, exp_base |-> 2, initial_delay |-> 1,
     http_status_codes |-> {429, 500, 503, 504}]

\* mutant: 400 added to the retried status codes
retry_config_retry400 ==
    [attempts |-> 5, exp_base |-> 7, initial_delay |-> 1,
     http_status_codes |-> {400, 429, 500, 503, 504}]

retry_config ==
    [attempts |-> 5, exp_base |-> 7, initial_delay |-> 1,
     http_status_codes |-> {429, 500, 503, 504}]

\* the options built in code.py setup_agent
retry_config_assistant ==
    [attempts |-> 5, exp_base |-> 7, initial_delay |-> 1,
     http_status_codes |-> {429, 500, 503, 504}]

retry_config_p ==
    [attempts |-> 5, exp_base |-> 2, initial_delay |-> 1,
     http_status_codes |-> {429, 500, 503, 504}]

\* ------------------------------------------------------ agent descriptors
Lit(s) == [kind |-> "lit", text |-> s]
Var(k) == [kind |-> "var", text |-> k]
NoKey == "<none>"
GoogleSearch == "google_search"

\* mutant: the research agent publishes under a key the Summarizer does not read
research_agent_wrong_key ==
    [name |-> "ResearchAgent", retry_options |-> retry_config,
     instruction |-> <<Lit("You are a specialized research agent.")>>,
     tools |-> {GoogleSearch}, output_key |-> "findings"]

research_agent ==
    [name |-> "ResearchAgent", retry_options |-> retry_config,
     instruction |-> <<Lit("You are a specialized research agent.")>>,
     tools |-> {GoogleSearch}, output_key |-> "research_findings"]

\* mutant: the Summarizer's instruction does not reference research_findings
summarizer_agent_no_placeholder ==
    [name |-> "SummarizerAgent", retry_options |-> retry_config,
     instruction |-> <<Lit("Read the provided research findings."),
                       Lit(" Create a concise summary.")>>,
     tools |-> {}, output_key |-> "final_summary"]

summarizer_agent ==
    [name |-> "SummarizerAgent", retry_options |-> retry_config,
     instruction |-> <<Lit("Read the provided research findings: "),
                       Var("research_findings"),
                       Lit(" Create a concise summary.")>>,
     tools |-> {}, output_key |-> "final_summary"]

\* mutant: the coordinator publishes its own answer under final_summary
root_agent_with_key ==
    [name |-> "ResearchCoordinator", retry_options |-> retry_config,
     instruction |-> <<Lit("You are a research coordinator.")>>,
     tools |-> {"ResearchAgent", "SummarizerAgent"},
     output_key |-> "final_summary"]

root_agent ==
    [name |-> "ResearchCoordinator", retry_options |-> retry_config,
     instruction |-> <<Lit("You are a research coordinator.")>>,
     tools |-> {"ResearchAgent", "SummarizerAgent"}, output_key |-> NoKey]

\* mutant: the Outline agent publishes under a key the Writer does not read
outline_agent_wrong_key ==
    [name |-> "OutlineAgent", retry_options |-> retry_config,
     instruction |-> <<Lit("Create a blog outline for the given topic.")>>,
     tools |-> {}, output_key |-> "outline"]

outline_agent ==
    [name |-> "OutlineAgent", retry_options |-> retry_config,
     instruction |-> <<Lit("Create a blog outline for the given topic.")>>,
     tools |-> {}, output_key |-> "blog_outline"]

\* mutant: the Writer is constructed with the search tool
writer_agent_with_tools ==
    [name |-> "WriterAgent", retry_options |-> retry_config,
     instruction |-> <<Lit("Following this outline strictly: "),
                       Var("blog_outline"),
                       Lit(" Write a brief blog post.")>>,
     tools |-> {GoogleSearch}, output_key |-> "blog_draft"]

writer_agent ==
    [name |-> "WriterAgent", retry_options |-> retry_config,
     instruction |-> <<Lit("Following this outline strictly: "),
                       Var("blog_outline"),
                       Lit(" Write a brief blog post.")>>,
     tools |-> {}, output_key |-> "blog_draft"]

editor_agent ==
    [name |-> "EditorAgent", retry_options |-> retry_config,
     instruction |-> <<Lit("Edit this draft: "), Var("blog_draft"),
                       Lit(" Your task is to polish the text.")>>,
     tools |-> {}, output_key |-> "final_blog"]

tech_researcher ==
    [name |-> "TechResearcher", retry_options |-> retry_config_p,
     instruction |-> <<Lit("Research the latest AI/ML trends.")>>,
     tools |-> {GoogleSearch}, output_key |-> "tech_research"]

health_researcher ==
    [name |-> "HealthResearcher", retry_options |-> retry_config_p,
     instruction |-> <<Lit("Research recent medical breakthroughs.")>>,
     tools |-> {GoogleSearch}, output_key |-> "health_research"]

finance_researcher ==
    [name |-> "FinanceResearcher", retry_options |-> retry_config_p,
     instruction |-> <<Lit("Research current fintech trends.")>>,
     tools |-> {GoogleSearch}, output_key |-> "finance_research"]

aggregator_agent ==
    [name |-> "AggregatorAgent", retry_options |-> retry_config_p,
     instruction |-> <<Lit("Combine these three research findings: "),
                       Var("tech_research"), Lit(" Health: "),
                       Var("health_research"), Lit(" Finance: "),
                       Var("finance_research"),
                       Lit(" Your summary should highlight common themes.")>>,
     tools |-> {}, output_key |-> "executive_summary"]

\* mutant: the assistant publishes its answer under an output key
helpful_assistant_with_key ==
    [name |-> "helpful_assistant", retry_options |-> retry_config_assistant,
     instruction |->
        <<Lit("You are a helpful assistant. Provide clear, concise, and accurate responses. Use Google Search for current information or when you're unsure. Always format your responses in a readable way.")>>,
     tools |-> {GoogleSearch}, output_key |-> "assistant_response"]

\* code.py setup_agent: a single agent with the search tool, no output key
helpful_assistant ==
    [name |-> "helpful_assistant", retry_options |-> retry_config_assistant,
     instruction |->
        <<Lit("You are a helpful assistant. Provide clear, concise, and accurate responses. Use Google Search for current information or when you're unsure. Always format your responses in a readable way.")>>,
     tools |-> {GoogleSearch}, output_key |-> NoKey]

AgentDescriptors ==
    {research_agent, summarizer_agent, root_agent, outline_agent,
     writer_agent, editor_agent, tech_researcher, health_researcher,
     finance_researcher, aggregator_agent, helpful_assistant}

Agents == {d.name : d \in AgentDescriptors}
DescOf == [a \in Agents |-> CHOOSE d \in AgentDescriptors : d.name = a]
Desc(a) == DescOf[a]

\* -------------------------------------------------- composite descriptors
\* mutant: the blog agents grouped with ParallelAgent
blog_pipeline_parallel ==
    [name |-> "BlogPipeline", variant |-> "Parallel",
     sub_agents |-> <<"OutlineAgent", "WriterAgent", "EditorAgent">>]

blog_pipeline ==
    [name |-> "BlogPipeline", variant |-> "Sequential",
     sub_agents |-> <<"OutlineAgent", "WriterAgent", "EditorAgent">>]

\* mutant: the researchers grouped with SequentialAgent
parallel_research_team_sequential ==
    [name |-> "ParallelResearchTeam", variant |-> "Sequential",
     sub_agents |-> <<"TechResearcher", "HealthResearcher",
                      "FinanceResearcher">>]

parallel_research_team ==
    [name |-> "ParallelResearchTeam", variant |-> "Parallel",
     sub_agents |-> <<"TechResearcher", "HealthResearcher",
                      "FinanceResearcher">>]

\* mutant: the aggregator listed before the research team
root_agent_p_swapped ==
    [name |-> "ResearchSystem", variant |-> "Sequential",
     sub_agents |-> <<"AggregatorAgent", "ParallelResearchTeam">>]

\* mutant: the top-level workflow built with ParallelAgent
root_agent_p_parallel ==
    [name |-> "ResearchSystem", variant |-> "Parallel",
     sub_agents |-> <<"ParallelResearchTeam", "AggregatorAgent">>]

root_agent_p ==
    [name |-> "ResearchSystem", variant |-> "Sequential",
     sub_agents |-> <<"ParallelResearchTeam", "AggregatorAgent">>]

CompositeDescriptors == {blog_pipeline, parallel_research_team, root_agent_p}
Composites == {d.name : d \in CompositeDescriptors}
CDescOf == [c \in Composites |-> CHOOSE d \in CompositeDescriptors : d.name = c]
CDesc(c) == CDescOf[c]
Components == Agents \cup Composites

\* the roots handed to InMemoryRunner: agent.py main, p_agent.py main and
\* code.py run_queries
Roots ==
    {root_agent.name, blog_pipeline.name, root_agent_p.name,
     helpful_assistant.name}

\* the queries run_debug is called with on the runner of each root; the one
\* runner of helpful_assistant serves both entries of queries
QueriesOf ==
    [r \in Roots |->
        CASE r = root_agent.name -> {research_query}
          [] r = blog_pipeline.name -> {blog_query}
          [] r = root_agent_p.name -> {briefing_query}
          [] r = helpful_assistant.name -> {queries[1], queries[2]}]

\* ------------------------------------------------------ structure helpers
Range(s) == {s[i] : i \in DOMAIN s}
None == "<none>"

Children(c) == IF c \in Composites THEN Range(CDesc(c).sub_agents) ELSE {}
ParentOf ==
    [c \in Components |->
        IF \E p \in Composites : c \in Children(p)
        THEN CHOOSE p \in Composites : c \in Children(p)
        ELSE None]
Parent(c) == ParentOf[c]
IsSequential(c) == c \in Composites /\ CDesc(c).variant = "Sequential"
IsParallel(c) == c \in Composites /\ CDesc(c).variant = "Parallel"

\* the siblings declared before c in its parent's sub_agents list
EarlierSiblingsOf ==
    [c \in Components |->
        IF Parent(c) = None THEN {}
        ELSE LET subs == CDesc(Parent(c)).sub_agents
                 idx == CHOOSE i \in DOMAIN subs : subs[i] = c
             IN {subs[i] : i \in 1..(idx - 1)}]
EarlierSiblings(c) == EarlierSiblingsOf[c]
LaterSiblings(c) ==
    IF Parent(c) = None THEN {}
    ELSE Children(Parent(c)) \ (EarlierSiblings(c) \cup {c})

\* output keys a component writes: its own, or those of its descendants
RECURSIVE OutputKeys(_)
OutputKeys(c) ==
    IF c \in Agents
    THEN (IF Desc(c).output_key = NoKey THEN {} ELSE {Desc(c).output_key})
    ELSE UNION {OutputKeys(k) : k \in Children(c)}

\* the keys the two workflows exchange
BlogKeys == {"blog_outline", "blog_draft", "final_blog"}
ResearchKeys == {"tech_research", "health_research", "finance_research"}

Placeholders(template) ==
    {template[i].text : i \in {j \in DOMAIN template : template[j].kind = "var"}}

Keys ==
    {UserInputKey} \cup UNION {OutputKeys(a) : a \in Agents}
        \cup UNION {Placeholders(d.instruction) : d \in AgentDescriptors}
        \cup BlogKeys \cup ResearchKeys

\* ------------------------------------------------ 4.1 Shared State Store
EmptyStore == [k \in Keys |-> Absent]
get(st, key) == st[key]
set(st, key, value) == [st EXCEPT ![key] = value]
snapshot(st) == st

\* merge of the children's deltas: each delta is applied as a set under the
\* child's output key, in the configured child order
RECURSIVE merge(_, _, _)
merge(st, order, deltas) ==
    IF order = <<>> THEN st
    ELSE LET c == Head(order)
             next == IF deltas[c] = Absent \/ Desc(c).output_key = NoKey
                     THEN st
                     ELSE set(st, Desc(c).output_key, deltas[c])
         IN merge(next, Tail(order), deltas)

\* --------------------------------------------- 4.2 Instruction Templating
MissingKeys(template, st) == {k \in Placeholders(template) : get(st, k) = Absent}

FirstMissing(template, st) ==
    LET idx == {i \in DOMAIN template :
                   template[i].kind = "var" /\ get(st, template[i].text) = Absent}
    IN template[CHOOSE i \in idx : \A j \in idx : i <= j].text

render(template, st) ==
    IF MissingKeys(template, st) # {}
    THEN [ok |-> FALSE, text |-> <<>>, missing |-> FirstMissing(template, st)]
    ELSE [ok |-> TRUE,
          text |-> [i \in DOMAIN template |->
                       IF template[i].kind = "var"
                       THEN get(st, template[i].text)
                       ELSE template[i].text],
          missing |-> ""]

\* ---------------------------------------------------- 4.3 Retry Policy
Retryable(policy, code) == code \in policy.http_status_codes
Delay(policy, attempt) == policy.initial_delay * policy.exp_base ^ (attempt - 1)

\* ------------------------------------------------------------- failures
NoFailure ==
    [kind |-> "none", agent |-> "", code |-> 0, key |-> "", failed |-> {},
     attempts |-> 0, delays |-> <<>>]
MissingVariable(a, k) ==
    [NoFailure EXCEPT !.kind = "MissingVariable", !.agent = a, !.key = k]
RetryExhausted(a, code, n, ds) ==
    [NoFailure EXCEPT !.kind = "RetryExhausted", !.agent = a, !.code = code,
                      !.attempts = n, !.delays = ds]
InvocationError(a, code, n, ds) ==
    [NoFailure EXCEPT !.kind = "InvocationError", !.agent = a, !.code = code,
                      !.attempts = n, !.delays = ds]
ToolLoopExceeded(a) ==
    [NoFailure EXCEPT !.kind = "ToolLoopExceeded", !.agent = a]
AggregateFailure(c, failedChildren) ==
    [NoFailure EXCEPT !.kind = "AggregateFailure", !.agent = c,
                      !.failed = failedChildren]

\* ------------------------------------- 4.5 agent-as-tool reference graph
\* the graph declared in create_agents, plus the edges a configuration adds
DeclaredToolGraph == [a \in Agents |-> Desc(a).tools \cap Agents]

ExtraToolEdges ==
    { {},
      {<<"ResearchAgent", "SummarizerAgent">>,
       <<"SummarizerAgent", "ResearchAgent">>},
      {<<"OutlineAgent", "WriterAgent">>,
       <<"WriterAgent", "EditorAgent">>,
       <<"EditorAgent", "OutlineAgent">>} }

WithEdges(g, edges) ==
    [a \in Agents |-> g[a] \cup {e[2] : e \in {x \in edges : x[1] = a}}]

RECURSIVE ReachableFrom(_, _, _)
ReachableFrom(g, frontier, seen) ==
    LET next == (UNION {g[a] : a \in frontier}) \ seen
    IN IF next = {} THEN seen
       ELSE ReachableFrom(g, next, seen \cup next)

\* mutant: only direct mutual references are detected
HasMutualReferenceOnly(g) == \E a \in Agents : \E b \in g[a] : a \in g[b]

HasCycle(g) == \E a \in Agents : a \in ReachableFrom(g, {a}, {})

VARIABLES
    phase,       \* configured | ConfigurationError | constructed | running | returned | failed
    agentTools,  \* the agent-as-tool reference graph of the loaded workflow
    session,     \* how the current Runner call got its Session: created | continued
    root,        \* the root component of the current Runner call
    runs,        \* number of Runner calls started
    store,       \* the session's Shared State Store
    snap,        \* the snapshot taken at parallel fan-out
    delta,       \* per parallel child: its buffered output-key write
    status,      \* per component: its execution state
    attempts,    \* per agent: attempts made by the retry wrapper on the current call
    sleeps,      \* per agent: backoff delays slept during the current call
    toolIters,   \* per agent: tool-call iterations of the current execution
    calling,     \* per agent: the tool it is waiting for
    result,      \* per agent: its final text
    failure,     \* per component: its failure
    view         \* per agent: the store its instruction was rendered against

vars == <<phase, agentTools, root, session, runs, store, snap, delta, status,
          attempts, sleeps, toolIters, calling, result, failure, view>>

NoResult == "<no result>"
NoView == [k \in Keys |-> "<not rendered>"]
Terminal == {"Completed", "Failed"}

Init ==
    /\ phase = "configured"
    /\ agentTools \in {WithEdges(DeclaredToolGraph, e) : e \in ExtraToolEdges}
    /\ root = None
    /\ session = "none"
    /\ runs = 0
    /\ store = EmptyStore
    /\ snap = EmptyStore
    /\ delta = [a \in Agents |-> Absent]
    /\ status = [c \in Components |-> "Pending"]
    /\ attempts = [a \in Agents |-> 0]
    /\ sleeps = [a \in Agents |-> <<>>]
    /\ toolIters = [a \in Agents |-> 0]
    /\ calling = [a \in Agents |-> None]
    /\ result = [a \in Agents |-> NoResult]
    /\ failure = [c \in Components |-> NoFailure]
    /\ view = [a \in Agents |-> NoView]

\* --------------------------------------------------------- construction
\* the agent-as-tool reference graph is checked for cycles before any run
Construct ==
    /\ phase = "configured"
    /\ phase' = IF HasCycle(agentTools) THEN "ConfigurationError"
                ELSE "constructed"
    /\ UNCHANGED <<agentTools, root, session, runs, store, snap, delta, status,
                   attempts, sleeps, toolIters, calling, result, failure, view>>

\* ------------------------------------------------------------ 4.8 Runner
\* the roots whose runner object serves several run_debug calls in a row:
\* run_queries builds one InMemoryRunner before its loop over queries, while
\* the two main functions build a runner for every call
ReusedRunners == {helpful_assistant.name}

\* one fresh Session: empty store except the seeded user input
FreshSession(input) == set(EmptyStore, UserInputKey, input)

\* the Session of the previous call on the same runner object, continued
\* with the new user input
ContinuedSession(input) == set(store, UserInputKey, input)

\* the ways a run_debug call on the runner of root r can get its Session:
\* a new runner object has no Session to continue; on a reused runner the
\* call may create a Session or continue the one of the previous call
SessionChoices(r) ==
    IF r \in ReusedRunners /\ root = r /\ runs > 0
    THEN {"created", "continued"}
    ELSE {"created"}

RunnerStart(r, input) ==
    /\ phase \in {"constructed", "returned", "failed"}
    /\ runs < MaxRuns
    /\ phase' = "running"
    /\ root' = r
    /\ runs' = runs + 1
    /\ \E how \in SessionChoices(r) :
          /\ session' = how
          /\ store' = IF how = "continued" THEN ContinuedSession(input)
                      ELSE FreshSession(input)
    /\ snap' = EmptyStore
    /\ delta' = [a \in Agents |-> Absent]
    /\ status' = [c \in Components |-> "Pending"]
    /\ attempts' = [a \in Agents |-> 0]
    /\ sleeps' = [a \in Agents |-> <<>>]
    /\ toolIters' = [a \in Agents |-> 0]
    /\ calling' = [a \in Agents |-> None]
    /\ result' = [a \in Agents |-> NoResult]
    /\ failure' = [c \in Components |-> NoFailure]
    /\ view' = [a \in Agents |-> NoView]
    /\ UNCHANGED agentTools

RunnerReturn ==
    /\ phase = "running"
    /\ status[root] = "Completed"
    /\ phase' = "returned"
    /\ UNCHANGED <<agentTools, root, session, runs, store, snap, delta, status,
                   attempts, sleeps, toolIters, calling, result, failure, view>>

RunnerFail ==
    /\ phase = "running"
    /\ status[root] = "Failed"
    /\ phase' = "failed"
    /\ UNCHANGED <<agentTools, root, session, runs, store, snap, delta, status,
                   attempts, sleeps, toolIters, calling, result, failure, view>>

\* ------------------------------------------------------ starting a component
CalledAsTool(c) ==
    \E a \in Agents : status[a] = "ToolLoop" /\ calling[a] = c

CanStart(c) ==
    /\ phase = "running"
    /\ status[c] = "Pending"
    /\ \/ c = root
       \/ /\ Parent(c) # None
          /\ status[Parent(c)] = "Running"
          /\ IsSequential(Parent(c)) =>
                \A k \in EarlierSiblings(c) : status[k] = "Completed"
       \/ CalledAsTool(c)

\* ------------------------------------------------------------- 4.4 Agent
\* children of a Parallel composite run against the fan-out snapshot
IsolatedOf == [a \in Agents |-> Parent(a) # None /\ IsParallel(Parent(a))]
Isolated(a) == IsolatedOf[a]
VisibleStore(a) == IF Isolated(a) THEN snap ELSE store
ToolsOf(a) == (Desc(a).tools \ Agents) \cup agentTools[a]

AgentStart(a) ==
    /\ CanStart(a)
    /\ status' = [status EXCEPT ![a] = "Rendering"]
    /\ UNCHANGED <<phase, agentTools, root, session, runs, store, snap, delta, attempts,
                   sleeps, toolIters, calling, result, failure, view>>

Render(a) ==
    /\ phase = "running"
    /\ status[a] = "Rendering"
    /\ view' = [view EXCEPT ![a] = VisibleStore(a)]
    /\ LET r == render(Desc(a).instruction, VisibleStore(a))
       IN IF r.ok
          THEN /\ status' = [status EXCEPT ![a] = "Invoking"]
               /\ UNCHANGED failure
          ELSE /\ status' = [status EXCEPT ![a] = "Failed"]
               /\ failure' = [failure EXCEPT ![a] = MissingVariable(a, r.missing)]
    /\ UNCHANGED <<phase, agentTools, root, session, runs, store, snap, delta, attempts,
                   sleeps, toolIters, calling, result>>

\* the model call returns the final text: the agent completes and publishes it
InvokeFinal(a, text) ==
    /\ phase = "running"
    /\ status[a] = "Invoking"
    /\ status' = [status EXCEPT ![a] = "Completed"]
    /\ result' = [result EXCEPT ![a] = text]
    /\ attempts' = [attempts EXCEPT ![a] = 0]
    /\ sleeps' = [sleeps EXCEPT ![a] = <<>>]
    /\ toolIters' = [toolIters EXCEPT ![a] = 0]
    /\ IF Desc(a).output_key = NoKey
       THEN UNCHANGED <<store, delta>>
       ELSE IF Isolated(a)
            THEN /\ delta' = [delta EXCEPT ![a] = text]
                 /\ UNCHANGED store
            ELSE /\ store' = set(store, Desc(a).output_key, text)
                 /\ UNCHANGED delta
    /\ UNCHANGED <<phase, agentTools, root, session, runs, snap, calling, failure, view>>

\* mutant: a call that finally fails publishes an empty fallback text
InvokeFailWriting(a, code) ==
    /\ phase = "running"
    /\ status[a] = "Invoking"
    /\ LET policy == Desc(a).retry_options
           n == attempts[a] + 1
       IN IF Retryable(policy, code) /\ n < policy.attempts
          THEN /\ attempts' = [attempts EXCEPT ![a] = n]
               /\ sleeps' = [sleeps EXCEPT ![a] = Append(@, Delay(policy, n))]
               /\ UNCHANGED <<status, failure, toolIters, store>>
          ELSE /\ status' = [status EXCEPT ![a] = "Failed"]
               /\ failure' = [failure EXCEPT ![a] =
                      IF Retryable(policy, code)
                      THEN RetryExhausted(a, code, n, sleeps[a])
                      ELSE InvocationError(a, code, n, sleeps[a])]
               /\ attempts' = [attempts EXCEPT ![a] = 0]
               /\ sleeps' = [sleeps EXCEPT ![a] = <<>>]
               /\ toolIters' = [toolIters EXCEPT ![a] = 0]
               /\ store' = IF Desc(a).output_key = NoKey THEN store
                           ELSE set(store, Desc(a).output_key, "")
    /\ UNCHANGED <<phase, agentTools, root, session, runs, snap, delta, calling,
                   result, view>>

\* the model call fails: the retry wrapper sleeps and retries, or gives up
InvokeFail(a, code) ==
    /\ phase = "running"
    /\ status[a] = "Invoking"
    /\ LET policy == Desc(a).retry_options
           n == attempts[a] + 1
       IN IF Retryable(policy, code) /\ n < policy.attempts
          THEN /\ attempts' = [attempts EXCEPT ![a] = n]
               /\ sleeps' = [sleeps EXCEPT ![a] = Append(@, Delay(policy, n))]
               /\ UNCHANGED <<status, failure, toolIters>>
          ELSE /\ status' = [status EXCEPT ![a] = "Failed"]
               /\ failure' = [failure EXCEPT ![a] =
                      IF Retryable(policy, code)
                      THEN RetryExhausted(a, code, n, sleeps[a])
                      ELSE InvocationError(a, code, n, sleeps[a])]
               /\ attempts' = [attempts EXCEPT ![a] = 0]
               /\ sleeps' = [sleeps EXCEPT ![a] = <<>>]
               /\ toolIters' = [toolIters EXCEPT ![a] = 0]
    /\ UNCHANGED <<phase, agentTools, root, session, runs, store, snap, delta, calling,
                   result, view>>

\* mutant: the tool-use loop dispatches every request, with no iteration bound
InvokeToolCallUnbounded(a, tool) ==
    /\ phase = "running"
    /\ status[a] = "Invoking"
    /\ tool \in (Desc(a).tools \ Agents) \cup agentTools[a]
    /\ tool \in Agents => status[tool] \in {"Pending", "Completed", "Failed"}
    /\ attempts' = [attempts EXCEPT ![a] = 0]
    /\ sleeps' = [sleeps EXCEPT ![a] = <<>>]
    /\ toolIters' = [toolIters EXCEPT ![a] = @ + 1]
    /\ calling' = [calling EXCEPT ![a] = tool]
    /\ status' = [c \in Components |->
                     IF c = a THEN "ToolLoop"
                     ELSE IF c = tool THEN "Pending"
                     ELSE status[c]]
    /\ failure' = [c \in Components |->
                      IF c = tool THEN NoFailure ELSE failure[c]]
    /\ result' = [b \in Agents |-> IF b = tool THEN NoResult ELSE result[b]]
    /\ view' = [b \in Agents |->
                   IF b = tool THEN [k \in Keys |-> "<not rendered>"]
                   ELSE view[b]]
    /\ UNCHANGED <<phase, agentTools, root, session, runs, store, snap, delta>>

\* mutant: the tool-use loop dispatches every request without counting it
InvokeToolCallUncounted(a, tool) ==
    /\ phase = "running"
    /\ status[a] = "Invoking"
    /\ tool \in (Desc(a).tools \ Agents) \cup agentTools[a]
    /\ tool \in Agents => status[tool] \in {"Pending", "Completed", "Failed"}
    /\ attempts' = [attempts EXCEPT ![a] = 0]
    /\ sleeps' = [sleeps EXCEPT ![a] = <<>>]
    /\ calling' = [calling EXCEPT ![a] = tool]
    /\ status' = [c \in Components |->
                     IF c = a THEN "ToolLoop"
                     ELSE IF c = tool THEN "Pending"
                     ELSE status[c]]
    /\ failure' = [c \in Components |->
                      IF c = tool THEN NoFailure ELSE failure[c]]
    /\ result' = [b \in Agents |-> IF b = tool THEN NoResult ELSE result[b]]
    /\ view' = [b \in Agents |->
                   IF b = tool THEN [k \in Keys |-> "<not rendered>"]
                   ELSE view[b]]
    /\ UNCHANGED <<phase, agentTools, root, session, runs, store, snap, delta, toolIters>>

\* the model call returns a tool-call request naming one of the agent's tools
InvokeToolCall(a, tool) ==
    /\ phase = "running"
    /\ status[a] = "Invoking"
    /\ tool \in ToolsOf(a)
    /\ tool \in Agents => status[tool] \in {"Pending"} \cup Terminal
    /\ attempts' = [attempts EXCEPT ![a] = 0]
    /\ sleeps' = [sleeps EXCEPT ![a] = <<>>]
    /\ IF toolIters[a] < MaxToolIters
       THEN /\ toolIters' = [toolIters EXCEPT ![a] = @ + 1]
            /\ calling' = [calling EXCEPT ![a] = tool]
            /\ status' = [c \in Components |->
                             IF c = a THEN "ToolLoop"
                             ELSE IF c = tool THEN "Pending"
                             ELSE status[c]]
            /\ failure' = [c \in Components |->
                              IF c = tool THEN NoFailure ELSE failure[c]]
            /\ result' = [b \in Agents |->
                             IF b = tool THEN NoResult ELSE result[b]]
            /\ view' = [b \in Agents |-> IF b = tool THEN NoView ELSE view[b]]
       ELSE /\ toolIters' = [toolIters EXCEPT ![a] = 0]
            /\ status' = [status EXCEPT ![a] = "Failed"]
            /\ failure' = [failure EXCEPT ![a] = ToolLoopExceeded(a)]
            /\ UNCHANGED <<calling, result, view>>
    /\ UNCHANGED <<phase, agentTools, root, session, runs, store, snap, delta>>

\* an external capability (google_search) returns its text to the loop: the
\* retry wrapper of the tool call is done and the model is invoked again
ExternalToolReturn(a) ==
    /\ phase = "running"
    /\ status[a] = "ToolLoop"
    /\ calling[a] # None
    /\ calling[a] \notin Agents
    /\ status' = [status EXCEPT ![a] = "Invoking"]
    /\ calling' = [calling EXCEPT ![a] = None]
    /\ attempts' = [attempts EXCEPT ![a] = 0]
    /\ sleeps' = [sleeps EXCEPT ![a] = <<>>]
    /\ UNCHANGED <<phase, agentTools, root, session, runs, store, snap, delta,
                   toolIters, result, failure, view>>

\* the call of an external capability fails: the same retry wrapper sleeps
\* and calls the tool again, or gives up and the agent fails
ExternalToolFail(a, code) ==
    /\ phase = "running"
    /\ status[a] = "ToolLoop"
    /\ calling[a] # None
    /\ calling[a] \notin Agents
    /\ LET policy == Desc(a).retry_options
           n == attempts[a] + 1
       IN IF Retryable(policy, code) /\ n < policy.attempts
          THEN /\ attempts' = [attempts EXCEPT ![a] = n]
               /\ sleeps' = [sleeps EXCEPT ![a] = Append(@, Delay(policy, n))]
               /\ UNCHANGED <<status, failure, toolIters, calling>>
          ELSE /\ status' = [status EXCEPT ![a] = "Failed"]
               /\ failure' = [failure EXCEPT ![a] =
                      IF Retryable(policy, code)
                      THEN RetryExhausted(a, code, n, sleeps[a])
                      ELSE InvocationError(a, code, n, sleeps[a])]
               /\ attempts' = [attempts EXCEPT ![a] = 0]
               /\ sleeps' = [sleeps EXCEPT ![a] = <<>>]
               /\ toolIters' = [toolIters EXCEPT ![a] = 0]
               /\ calling' = [calling EXCEPT ![a] = None]
    /\ UNCHANGED <<phase, agentTools, root, session, runs, store, snap, delta,
                   result, view>>

\* an agent wrapped as a tool has finished: its text, or its failure, returns
AgentToolReturn(a) ==
    /\ phase = "running"
    /\ status[a] = "ToolLoop"
    /\ calling[a] \in Agents
    /\ status[calling[a]] \in Terminal
    /\ calling' = [calling EXCEPT ![a] = None]
    /\ IF status[calling[a]] = "Completed"
       THEN /\ status' = [status EXCEPT ![a] = "Invoking"]
            /\ UNCHANGED <<failure, toolIters>>
       ELSE /\ status' = [status EXCEPT ![a] = "Failed"]
            /\ failure' = [failure EXCEPT ![a] = failure[calling[a]]]
            /\ toolIters' = [toolIters EXCEPT ![a] = 0]
    /\ UNCHANGED <<phase, agentTools, root, session, runs, store, snap, delta, attempts,
                   sleeps, result, view>>

\* ------------------------------------------------ 4.6 / 4.7 composites
StartComposite(c) ==
    /\ c \in Composites
    /\ CanStart(c)
    /\ status' = [status EXCEPT ![c] = "Running"]
    /\ IF IsParallel(c)
       THEN /\ snap' = snapshot(store)
            /\ delta' = [a \in Agents |->
                            IF a \in Children(c) THEN Absent ELSE delta[a]]
       ELSE UNCHANGED <<snap, delta>>
    /\ UNCHANGED <<phase, agentTools, root, session, runs, store, attempts, sleeps,
                   toolIters, calling, result, failure, view>>

SequentialComplete(c) ==
    /\ IsSequential(c)
    /\ status[c] = "Running"
    /\ \A k \in Children(c) : status[k] = "Completed"
    /\ status' = [status EXCEPT ![c] = "Completed"]
    /\ UNCHANGED <<phase, agentTools, root, session, runs, store, snap, delta, attempts,
                   sleeps, toolIters, calling, result, failure, view>>

SequentialFail(c) ==
    /\ IsSequential(c)
    /\ status[c] = "Running"
    /\ \E k \in Children(c) : status[k] = "Failed"
    /\ status' = [status EXCEPT ![c] = "Failed"]
    /\ failure' = [failure EXCEPT ![c] =
           failure[CHOOSE k \in Children(c) : status[k] = "Failed"]]
    /\ UNCHANGED <<phase, agentTools, root, session, runs, store, snap, delta, attempts,
                   sleeps, toolIters, calling, result, view>>

ParallelMerge(c) ==
    /\ IsParallel(c)
    /\ status[c] = "Running"
    /\ \A k \in Children(c) : status[k] = "Completed"
    /\ store' = merge(store, CDesc(c).sub_agents, delta)
    /\ status' = [status EXCEPT ![c] = "Completed"]
    /\ UNCHANGED <<phase, agentTools, root, session, runs, snap, delta, attempts, sleeps,
                   toolIters, calling, result, failure, view>>

ParallelFail(c) ==
    /\ IsParallel(c)
    /\ status[c] = "Running"
    /\ \A k \in Children(c) : status[k] \in Terminal
    /\ \E k \in Children(c) : status[k] = "Failed"
    /\ status' = [status EXCEPT ![c] = "Failed"]
    /\ failure' = [failure EXCEPT ![c] =
           AggregateFailure(c, {k \in Children(c) : status[k] = "Failed"})]
    /\ UNCHANGED <<phase, agentTools, root, session, runs, store, snap, delta, attempts,
                   sleeps, toolIters, calling, result, view>>

Next ==
    \/ Construct
    \/ \E r \in Roots : \E input \in QueriesOf[r] : RunnerStart(r, input)
    \/ RunnerReturn
    \/ RunnerFail
    \/ \E c \in Composites : StartComposite(c)
    \/ \E a \in Agents : AgentStart(a)
    \/ \E a \in Agents : Render(a)
    \/ \E a \in Agents, text \in Texts : InvokeFinal(a, text)
    \/ \E a \in Agents, code \in FailureCodes : InvokeFail(a, code)
    \/ \E a \in Agents, tool \in Agents \cup {GoogleSearch} : InvokeToolCall(a, tool)
    \/ \E a \in Agents : ExternalToolReturn(a)
    \/ \E a \in Agents, code \in FailureCodes : ExternalToolFail(a, code)
    \/ \E a \in Agents : AgentToolReturn(a)
    \/ \E c \in Composites : SequentialComplete(c)
    \/ \E c \in Composites : SequentialFail(c)
    \/ \E c \in Composites : ParallelMerge(c)
    \/ \E c \in Composites : ParallelFail(c)

Spec == Init /\ [][Next]_vars

\* ----------------------------------------------------------- progress
\* Termination does not depend on which text a model call returns or on
\* which classification a failure carries: the runs followed for progress use
\* one text and one retryable classification, the one that keeps a call in
\* its retry loop for as long as the policy allows. A failure of any other
\* classification ends the call in one step, as the last retryable one does.
LiveTexts == {"text"}
LiveCodes == {503}

\* a step of a Runner call in progress: an external model or tool call
\* returns (a text, a tool request or a classified failure), or the engine
\* takes its next step
RunStep ==
    \/ RunnerReturn
    \/ RunnerFail
    \/ \E c \in Composites : StartComposite(c)
    \/ \E a \in Agents : AgentStart(a)
    \/ \E a \in Agents : Render(a)
    \/ \E a \in Agents, text \in LiveTexts : InvokeFinal(a, text)
    \/ \E a \in Agents, code \in LiveCodes : InvokeFail(a, code)
    \/ \E a \in Agents, tool \in Agents \cup {GoogleSearch} : InvokeToolCall(a, tool)
    \/ \E a \in Agents : ExternalToolReturn(a)
    \/ \E a \in Agents, code \in LiveCodes : ExternalToolFail(a, code)
    \/ \E a \in Agents : AgentToolReturn(a)
    \/ \E c \in Composites : SequentialComplete(c)
    \/ \E c \in Composites : SequentialFail(c)
    \/ \E c \in Composites : ParallelMerge(c)
    \/ \E c \in Composites : ParallelFail(c)

LiveNext ==
    \/ Construct
    \/ \E r \in Roots : \E input \in QueriesOf[r] : RunnerStart(r, input)
    \/ RunStep

\* a Runner call in progress does not stop while one of its steps is possible
LiveSpec == Init /\ [][LiveNext]_vars /\ WF_vars(RunStep)

\* ======================================================================
\* Properties
\* ======================================================================
SequentialComposites == {"BlogPipeline", "ResearchSystem"}
ParallelTeam == {"TechResearcher", "HealthResearcher", "FinanceResearcher"}
BlogAgents == {"OutlineAgent", "WriterAgent", "EditorAgent"}
AgentPyAgents ==
    {"ResearchAgent", "SummarizerAgent", "ResearchCoordinator"} \cup BlogAgents
InvocationFailures == {"RetryExhausted", "InvocationError"}
AllPending == \A c \in Components : status[c] = "Pending"

\* C1: in the Sequential composites BlogPipeline and ResearchSystem a child
\* has left Pending only if every child declared before it is Completed, and
\* the store an agent child rendered its instruction against held every
\* output key of the children before it and no output key of the children
\* after it.
C1_SequentialOrderAndVisibility ==
    \A c \in SequentialComposites : \A k \in Range(CDesc(c).sub_agents) :
        /\ status[k] # "Pending" =>
              \A e \in EarlierSiblings(k) : status[e] = "Completed"
        /\ (k \in Agents /\ view[k] # NoView) =>
              /\ \A e \in EarlierSiblings(k) : \A key \in OutputKeys(e) :
                    view[k][key] # Absent
              /\ \A l \in LaterSiblings(k) : \A key \in OutputKeys(l) :
                    view[k][key] = Absent

\* C1 witness: in a second Runner call the Editor, third child of
\* BlogPipeline, has rendered against a store holding the two earlier keys.
C1_Witness ==
    /\ runs = 2
    /\ root = "BlogPipeline"
    /\ status["EditorAgent"] = "Invoking"
    /\ view["EditorAgent"]["blog_outline"] = "text"
    /\ view["EditorAgent"]["blog_draft"] = "text"
    /\ view["WriterAgent"]["final_blog"] = Absent

\* C2: no child of ParallelResearchTeam reads a sibling's output-key write:
\* the store it rendered against is the fan-out snapshot, and while the
\* group runs the store visible to it holds no sibling key, whatever the
\* siblings have already written.
C2_ParallelIsolation ==
    \A c \in ParallelTeam : \A s \in ParallelTeam \ {c} :
        /\ view[c] # NoView =>
              /\ view[c] = snap
              /\ view[c][Desc(s).output_key] = Absent
        /\ status[c] \in {"Rendering", "Invoking", "ToolLoop"} =>
              VisibleStore(c)[Desc(s).output_key] = Absent

\* C2 witness: TechResearcher has completed and written, HealthResearcher is
\* about to render and FinanceResearcher has rendered and is invoking.
C2_Witness ==
    /\ status["ParallelResearchTeam"] = "Running"
    /\ status["TechResearcher"] = "Completed"
    /\ delta["TechResearcher"] = "text"
    /\ status["HealthResearcher"] = "Rendering"
    /\ status["FinanceResearcher"] = "Invoking"
    /\ view["FinanceResearcher"] # NoView

\* C3: when ParallelResearchTeam has failed, every child is in a terminal
\* state, the failure is an aggregate listing exactly the failed children,
\* and the store holds no output key of any child of the group.
C3_ParallelPartialFailure ==
    status["ParallelResearchTeam"] = "Failed" =>
        /\ \A k \in ParallelTeam : status[k] \in Terminal
        /\ failure["ParallelResearchTeam"].kind = "AggregateFailure"
        /\ failure["ParallelResearchTeam"].failed =
              {k \in ParallelTeam : status[k] = "Failed"}
        /\ failure["ParallelResearchTeam"].failed # {}
        /\ \A k \in ParallelTeam : store[Desc(k).output_key] = Absent

\* C3 witness: child 2 failed, children 1 and 3 completed with a buffered
\* write each, and the group has failed.
C3_Witness ==
    /\ status["ParallelResearchTeam"] = "Failed"
    /\ status["TechResearcher"] = "Completed"
    /\ status["HealthResearcher"] = "Failed"
    /\ status["FinanceResearcher"] = "Completed"
    /\ delta["TechResearcher"] = "text"
    /\ delta["FinanceResearcher"] = "text"

\* C4: a call that failed retryably on every attempt was attempted exactly
\* 5 times and slept 1, 7, 49, 343 between attempts (1, 2, 4, 8 for the
\* agents of p_agent.py, configured with base 2), with no sleep after the last
\* attempt; while a call is being retried the sleeps so far are the first
\* delays of that sequence, one per failed attempt.
ExpectedDelays(a) ==
    IF a \in ParallelTeam \cup {"AggregatorAgent"}
    THEN <<1, 2, 4, 8>> ELSE <<1, 7, 49, 343>>

C4_RetryBackoff ==
    \A a \in Agents :
        /\ (failure[a].kind = "RetryExhausted" /\ failure[a].agent = a) =>
              /\ failure[a].attempts = 5
              /\ failure[a].delays = ExpectedDelays(a)
        /\ attempts[a] < 5
        /\ sleeps[a] = SubSeq(ExpectedDelays(a), 1, attempts[a])

\* C4 witness: the Editor's model call has exhausted its retries.
C4_Witness ==
    /\ status["EditorAgent"] = "Failed"
    /\ failure["EditorAgent"].kind = "RetryExhausted"
    /\ failure["EditorAgent"].delays = <<1, 7, 49, 343>>

\* C5 (as stated): every call that failed with a classification outside
\* {429, 500, 503, 504} surfaced after attempt 1 with no sleep performed.
C5_Original ==
    \A a \in Agents :
        (failure[a].kind \in InvocationFailures /\ failure[a].agent = a
            /\ failure[a].code \notin {429, 500, 503, 504}) =>
            /\ failure[a].attempts = 1
            /\ failure[a].delays = <<>>

\* C5 (amended): a failure with a classification outside {429, 500, 503, 504}
\* is surfaced right after the attempt on which it occurs: it is not
\* reported as retry exhaustion, the agent is Failed, and the only sleeps
\* performed are the ones after the earlier, retryable failures (none when
\* it occurs on attempt 1).
C5_NonRetryableSurfaces ==
    \A a \in Agents :
        (failure[a].kind \in InvocationFailures /\ failure[a].agent = a
            /\ failure[a].code \notin {429, 500, 503, 504}) =>
            /\ failure[a].kind = "InvocationError"
            /\ status[a] = "Failed"
            /\ failure[a].attempts \in 1..5
            /\ Len(failure[a].delays) = failure[a].attempts - 1
            /\ failure[a].attempts = 1 => failure[a].delays = <<>>
            /\ attempts[a] = 0 /\ sleeps[a] = <<>>

\* C5 witness: the Outline agent's first attempt failed with 400.
C5_Witness ==
    /\ failure["OutlineAgent"].kind = "InvocationError"
    /\ failure["OutlineAgent"].code = 400
    /\ failure["OutlineAgent"].attempts = 1
    /\ status["OutlineAgent"] = "Failed"

\* C6: a workflow whose agent-as-tool graph has a cycle (mutual, or through
\* three agents) is rejected at construction with ConfigurationError and no
\* Runner call or agent execution ever happens for it; an acyclic workflow
\* is not rejected.
MutualReference(g) == \E a \in Agents : \E b \in g[a] : a \in g[b]
ThreeCycle(g) == \E a \in Agents : \E b \in g[a] : \E c \in g[b] : a \in g[c]

C6_CycleRejected ==
    /\ (MutualReference(agentTools) \/ ThreeCycle(agentTools)) =>
          /\ phase \in {"configured", "ConfigurationError"}
          /\ runs = 0
          /\ AllPending
    /\ phase = "ConfigurationError" =>
          (MutualReference(agentTools) \/ ThreeCycle(agentTools))

\* C6 witness: the three-agent cycle OutlineAgent -> WriterAgent ->
\* EditorAgent -> OutlineAgent has been rejected.
C6_Witness ==
    /\ phase = "ConfigurationError"
    /\ ThreeCycle(agentTools)
    /\ ~MutualReference(agentTools)

\* C7: the aggregator's instruction renders against the store exactly when
\* ParallelResearchTeam has completed its merge (all three research keys
\* are then present, and before that a key is missing); the aggregator
\* leaves Pending only after the group is Completed and its own render
\* never fails with MissingVariable.
C7_AggregatorAfterMerge ==
    LET r == render(aggregator_agent.instruction, store)
        merged == status["ParallelResearchTeam"] = "Completed"
    IN /\ merged => (r.ok /\ \A k \in ResearchKeys : store[k] # Absent)
       /\ ~merged => (~r.ok /\ r.missing \in ResearchKeys)
       /\ status["AggregatorAgent"] # "Pending" => merged
       /\ failure["AggregatorAgent"].kind # "MissingVariable"

\* C7 witness: the aggregator has rendered with all three keys present.
C7_Witness ==
    /\ status["AggregatorAgent"] = "Invoking"
    /\ \A k \in ResearchKeys : view["AggregatorAgent"][k] = "text"

\* C8: a BlogPipeline run that returned left blog_outline, blog_draft and
\* final_blog in the store, final_blog being the Editor's text (non-empty
\* when the model's texts were non-empty); neither the Writer's nor the
\* Editor's render ever fails with MissingVariable.
C8_BlogEndToEnd ==
    /\ (phase = "returned" /\ root = "BlogPipeline") =>
          /\ \A k \in BlogKeys : store[k] # Absent
          /\ store["final_blog"] = result["EditorAgent"]
          /\ (\A a \in BlogAgents : result[a] # "") => store["final_blog"] # ""
    /\ failure["WriterAgent"].kind # "MissingVariable"
    /\ failure["EditorAgent"].kind # "MissingVariable"

\* C8 witness: the run on the blog query of main returned with three
\* non-empty texts.
C8_Witness ==
    /\ phase = "returned"
    /\ root = "BlogPipeline"
    /\ store[UserInputKey] = blog_query
    /\ \A k \in BlogKeys : store[k] = "text"

\* C9: once a child of BlogPipeline or ResearchSystem has failed, every
\* later child (and every agent below it) is still Pending and none of
\* their output keys is in the store; a failed composite carries the failed
\* child's failure unchanged, and a composite never completes with a failed
\* child.
RECURSIVE Descendants(_)
Descendants(c) ==
    {c} \cup UNION {Descendants(k) : k \in Children(c)}

C9_SequentialAbort ==
    \A c \in SequentialComposites :
        /\ \A k \in Range(CDesc(c).sub_agents) :
              status[k] = "Failed" =>
                 /\ \A l \in LaterSiblings(k) : \A d \in Descendants(l) :
                       status[d] = "Pending"
                 /\ \A l \in LaterSiblings(k) : \A key \in OutputKeys(l) :
                       store[key] = Absent
                 /\ status[c] = "Failed" => failure[c] = failure[k]
                 /\ status[c] # "Completed"
        /\ status[c] = "Failed" =>
              \E k \in Range(CDesc(c).sub_agents) : status[k] = "Failed"

\* C9 witness: the Writer failed after the Outline completed, and the
\* pipeline has failed with the Writer's failure.
C9_Witness ==
    /\ status["BlogPipeline"] = "Failed"
    /\ status["OutlineAgent"] = "Completed"
    /\ status["WriterAgent"] = "Failed"
    /\ failure["BlogPipeline"].agent = "WriterAgent"

TemplateKeys ==
    [a \in Agents |->
        CASE a = "SummarizerAgent" -> {"research_findings"}
          [] a = "WriterAgent" -> {"blog_outline"}
          [] a = "EditorAgent" -> {"blog_draft"}
          [] a = "AggregatorAgent" ->
                {"tech_research", "health_research", "finance_research"}
          [] OTHER -> {}]

\* C11: an agent whose instruction was rendered against a store lacking a key
\* the template references is Failed with MissingVariable naming that key,
\* and the failure is terminal for the execution: no model call was made (no
\* result, no attempt counted), no retry and no backoff sleep happened.
C11_MissingVariableTerminal ==
    \A a \in Agents :
        /\ (view[a] # NoView /\ \E k \in TemplateKeys[a] : view[a][k] = Absent) =>
              /\ status[a] = "Failed"
              /\ failure[a].kind = "MissingVariable"
              /\ failure[a].agent = a
              /\ failure[a].key \in TemplateKeys[a]
              /\ view[a][failure[a].key] = Absent
        /\ (failure[a].kind = "MissingVariable" /\ failure[a].agent = a) =>
              /\ status[a] = "Failed"
              /\ result[a] = NoResult
              /\ failure[a].attempts = 0
              /\ failure[a].delays = <<>>
              /\ attempts[a] = 0
              /\ sleeps[a] = <<>>
              /\ toolIters[a] = 0

\* C11 witness: the coordinator called the Summarizer before any research was
\* published; the Summarizer failed on research_findings and the coordinator
\* failed with it.
C11_Witness ==
    /\ status["SummarizerAgent"] = "Failed"
    /\ failure["SummarizerAgent"] =
          MissingVariable("SummarizerAgent", "research_findings")
    /\ view["SummarizerAgent"]["research_findings"] = Absent
    /\ status["ResearchCoordinator"] = "Failed"
    /\ failure["ResearchCoordinator"].agent = "SummarizerAgent"

\* the agents that declare tools in the source
ToolUsers ==
    {"ResearchAgent", "ResearchCoordinator", "helpful_assistant",
     "TechResearcher", "HealthResearcher", "FinanceResearcher"}

\* C12: an agent's tool-use loop never goes beyond the maximum number of
\* iterations, in a directly run agent and in an agent called as a tool
\* alike; an agent waiting for a tool is in one of those iterations, and an
\* agent whose model asked for one more tool call at the bound is Failed with
\* ToolLoopExceeded, its iteration count released.
C12_ToolLoopBounded ==
    \A a \in Agents :
        /\ toolIters[a] \in 0..MaxToolIters
        /\ status[a] = "ToolLoop" =>
              /\ a \in ToolUsers
              /\ toolIters[a] \in 1..MaxToolIters
              /\ calling[a] \in ToolsOf(a)
        /\ (failure[a].kind = "ToolLoopExceeded" /\ failure[a].agent = a) =>
              /\ a \in ToolUsers
              /\ status[a] = "Failed"
              /\ result[a] = NoResult
              /\ toolIters[a] = 0
        /\ a \notin ToolUsers => toolIters[a] = 0

\* C12 witness: the ResearchAgent, called as a tool by the coordinator, asked
\* for a tool on every invocation and failed with ToolLoopExceeded; the
\* failure has reached the coordinator.
C12_Witness ==
    /\ status["ResearchAgent"] = "Failed"
    /\ failure["ResearchAgent"] = ToolLoopExceeded("ResearchAgent")
    /\ status["ResearchCoordinator"] = "Failed"
    /\ failure["ResearchCoordinator"] = ToolLoopExceeded("ResearchAgent")

\* the output key each agent is constructed with in the source
DeclaredKey ==
    [a \in Agents |->
        CASE a = "ResearchAgent" -> "research_findings"
          [] a = "SummarizerAgent" -> "final_summary"
          [] a = "OutlineAgent" -> "blog_outline"
          [] a = "WriterAgent" -> "blog_draft"
          [] a = "EditorAgent" -> "final_blog"
          [] a = "TechResearcher" -> "tech_research"
          [] a = "HealthResearcher" -> "health_research"
          [] a = "FinanceResearcher" -> "finance_research"
          [] a = "AggregatorAgent" -> "executive_summary"
          [] OTHER -> NoKey]

\* C13 as stated: whenever an agent with an output key is Completed, the
\* store maps that key to the agent's result.
C13_Original ==
    \A a \in Agents :
        (status[a] = "Completed" /\ DeclaredKey[a] # NoKey) =>
            store[DeclaredKey[a]] = result[a]

\* the step in which an agent completes
C13_CompletionStep ==
    \A a \in Agents :
        (status[a] # "Completed" /\ status'[a] = "Completed") =>
            /\ result'[a] \in Texts
            /\ IF DeclaredKey[a] = NoKey
               THEN store' = store /\ delta' = delta
               ELSE IF a \in ParallelTeam
                    THEN /\ store' = store
                         /\ delta' = [delta EXCEPT ![a] = result'[a]]
                    ELSE /\ store' = [store EXCEPT ![DeclaredKey[a]] = result'[a]]
                         /\ delta' = delta

\* what a Completed agent has published
C13_Published ==
    \A a \in Agents :
        status[a] = "Completed" =>
            /\ result[a] \in Texts
            /\ (DeclaredKey[a] # NoKey /\ a \notin ParallelTeam) =>
                  store[DeclaredKey[a]] = result[a]
            /\ a \in ParallelTeam =>
                  /\ delta[a] = result[a]
                  /\ status["ParallelResearchTeam"] = "Completed" =>
                        store[DeclaredKey[a]] = result[a]
                  /\ status["ParallelResearchTeam"] # "Completed" =>
                        store[DeclaredKey[a]] = Absent

\* C13 (amended): an agent that completes returns a result; outside a
\* Parallel composite the completing step changes the store at exactly the
\* agent's output key, to the result, and changes nothing when the agent has
\* no output key (ResearchCoordinator); a child of the Parallel composite
\* leaves the store unchanged when it completes: its write is buffered and
\* reaches the store under its key when the composite merges.
C13_ResultPublished == []C13_Published /\ [][C13_CompletionStep]_vars

\* C13 witness: the coordinator completed after both of its tool agents
\* published; the store holds their keys and nothing of the coordinator.
C13_Witness ==
    /\ status["ResearchCoordinator"] = "Completed"
    /\ result["ResearchCoordinator"] = "text"
    /\ store["research_findings"] = result["ResearchAgent"]
    /\ store["final_summary"] = result["SummarizerAgent"]
    /\ status["SummarizerAgent"] = "Completed"
    /\ \A k \in Keys \ {UserInputKey, "research_findings", "final_summary"} :
          store[k] = Absent

\* the agents the coordinator may execute more than once in a session
ToolAgents == {"ResearchAgent", "SummarizerAgent"}

\* a step of an agent's execution that does not complete it
C14_NoWriteStep ==
    \A a \in Agents :
        (/\ status[a] \in {"Pending", "Rendering", "Invoking", "ToolLoop"}
         /\ status'[a] \in {"Rendering", "Invoking", "ToolLoop", "Failed"}) =>
            /\ delta'[a] = delta[a]
            /\ result'[a] = NoResult
            /\ DeclaredKey[a] # NoKey =>
                  store'[DeclaredKey[a]] = store[DeclaredKey[a]]
            /\ status'[a] = "Failed" => store' = store

\* what a Failed agent has left behind
C14_NothingWritten ==
    \A a \in Agents :
        status[a] = "Failed" =>
            /\ result[a] = NoResult
            /\ delta[a] = Absent
            /\ (DeclaredKey[a] # NoKey /\ a \notin ToolAgents) =>
                  store[DeclaredKey[a]] = Absent

\* C14: no step of an agent's execution other than its successful completion
\* changes the store entry of its output key or its buffered write, and the
\* step that fails it changes no store entry at all; an agent that is Failed
\* has no result, and the entry of its output key is absent as it was when
\* the execution began (for the coordinator's tool agents, which can run
\* again in a session: as the previous execution left it).
C14_FailedWritesNothing == []C14_NothingWritten /\ [][C14_NoWriteStep]_vars

\* C14 witness: the Writer rendered the outline and then failed all its
\* attempts; blog_draft is still absent while blog_outline is published.
C14_Witness ==
    /\ status["WriterAgent"] = "Failed"
    /\ failure["WriterAgent"].kind = "RetryExhausted"
    /\ view["WriterAgent"]["blog_outline"] = "text"
    /\ store["blog_outline"] = "text"
    /\ store["blog_draft"] = Absent
    /\ result["WriterAgent"] = NoResult

\* the store before and after the merge of ParallelResearchTeam
C15_MergedStore ==
    /\ (\E c \in ParallelTeam : status[c] \notin Terminal) =>
          \A k \in ResearchKeys : store[k] = Absent
    /\ status["ParallelResearchTeam"] = "Running" =>
          /\ store = snap
          /\ \A k \in ResearchKeys : store[k] = Absent
    /\ status["ParallelResearchTeam"] = "Completed" =>
          \A c \in ParallelTeam :
              /\ status[c] = "Completed"
              /\ store[DeclaredKey[c]] = result[c]
              /\ store[DeclaredKey[c]] \in Texts
    /\ view["AggregatorAgent"] # NoView =>
          \A c \in ParallelTeam :
              view["AggregatorAgent"][DeclaredKey[c]] = result[c]

\* a step of a ResearchSystem run that changes the store
C15_MergeStep ==
    (store' # store /\ runs' = runs /\ root = "ResearchSystem") =>
        \/ /\ status["ParallelResearchTeam"] = "Running"
           /\ status'["ParallelResearchTeam"] = "Completed"
           /\ \A c \in ParallelTeam : status[c] = "Completed"
           /\ store' = [k \in Keys |->
                           IF \E c \in ParallelTeam : DeclaredKey[c] = k
                           THEN result[CHOOSE c \in ParallelTeam :
                                           DeclaredKey[c] = k]
                           ELSE store[k]]
        \/ /\ status["ParallelResearchTeam"] = "Completed"
           /\ status'["AggregatorAgent"] = "Completed"

\* C15: in a ResearchSystem run the real store keeps the three research keys
\* absent while any child of ParallelResearchTeam is not yet terminal and is
\* unchanged while the composite runs; the one step that writes them is the
\* merge, taken with all three children Completed; once the composite is
\* Completed the store maps each child's output key to that child's result,
\* and the aggregator, which runs after it, renders against all three.
C15_MergeAfterAllChildren == []C15_MergedStore /\ [][C15_MergeStep]_vars

\* C15 witness: the merge has just happened with differing child results and
\* the aggregator has not started.
C15_Witness ==
    /\ status["ParallelResearchTeam"] = "Completed"
    /\ status["AggregatorAgent"] = "Pending"
    /\ store["tech_research"] = "text"
    /\ store["health_research"] = ""
    /\ store["finance_research"] = "text"
    /\ result["HealthResearcher"] = ""

\* C17: in a coordinator run the ResearchAgent, executed as a tool, writes
\* research_findings into the session's store; the Summarizer, executed as a
\* tool, has rendered its instruction successfully exactly when the
\* ResearchAgent completed before it in the session (it then read the
\* ResearchAgent's result), and otherwise (the coordinator called it first)
\* it is Failed with MissingVariable on research_findings and the
\* ResearchAgent never ran.
C17_ToolAgentSharesStore ==
    /\ (root = "ResearchCoordinator" /\ status["ResearchAgent"] = "Completed") =>
          store["research_findings"] = result["ResearchAgent"]
    /\ view["SummarizerAgent"] # NoView =>
          /\ root = "ResearchCoordinator"
          /\ calling["ResearchCoordinator"] = "SummarizerAgent"
                \/ status["ResearchCoordinator"] \in {"Invoking"} \cup Terminal
          /\ IF status["ResearchAgent"] = "Completed"
             THEN /\ view["SummarizerAgent"]["research_findings"] =
                        result["ResearchAgent"]
                  /\ failure["SummarizerAgent"].kind # "MissingVariable"
                  /\ status["SummarizerAgent"] # "Rendering"
             ELSE /\ status["ResearchAgent"] = "Pending"
                  /\ store["research_findings"] = Absent
                  /\ status["SummarizerAgent"] = "Failed"
                  /\ failure["SummarizerAgent"] =
                        MissingVariable("SummarizerAgent", "research_findings")

\* C17 witness: the coordinator called the ResearchAgent, then the
\* Summarizer, which rendered against the published findings and completed.
C17_Witness ==
    /\ root = "ResearchCoordinator"
    /\ status["ResearchAgent"] = "Completed"
    /\ status["SummarizerAgent"] = "Completed"
    /\ view["SummarizerAgent"]["research_findings"] = "text"
    /\ store["final_summary"] = ""
    /\ status["ResearchCoordinator"] = "Invoking"

\* the output keys declared by the agents of the source
DeclaredOutputKeys == {DeclaredKey[a] : a \in Agents} \ {NoKey}

\* the keys a session's store holds
C18_KeysDeclared ==
    /\ \A k \in Keys :
          store[k] # Absent => k \in {UserInputKey} \cup DeclaredOutputKeys
    /\ phase \in {"running", "returned", "failed"} => store[UserInputKey] \in Inputs
    /\ \A a \in Agents : delta[a] # Absent => a \in ParallelTeam

\* a step that changes the store
C18_WriteStep ==
    store' # store =>
        \/ /\ runs' = runs + 1
           /\ store'[UserInputKey] \in Inputs
           /\ \A k \in Keys \ {UserInputKey} : store'[k] = Absent
        \/ /\ runs' = runs
           /\ \E a \in Agents \ ParallelTeam :
                 /\ status[a] = "Invoking"
                 /\ status'[a] = "Completed"
                 /\ DeclaredKey[a] # NoKey
                 /\ store' = [store EXCEPT ![DeclaredKey[a]] = result'[a]]
        \/ /\ runs' = runs
           /\ status["ParallelResearchTeam"] = "Running"
           /\ status'["ParallelResearchTeam"] = "Completed"
           /\ \A c \in ParallelTeam : store'[DeclaredKey[c]] = delta[c]
           /\ \A k \in Keys \ {DeclaredKey[c] : c \in ParallelTeam} :
                 store'[k] = store[k]

\* C18: every key present in a session's store is the seeded user_input or
\* an output key declared by an agent of the workflow, and every step that
\* changes the store is the seeding of a new session, an agent completing
\* and writing its result under its own output key, or the merge of
\* ParallelResearchTeam writing its children's buffered results under their
\* keys.
C18_StoreWrittenByOwners == []C18_KeysDeclared /\ [][C18_WriteStep]_vars

\* C18 witness: a ResearchSystem run returned; the store holds the seeded
\* input, the three merged research keys and the aggregator's summary, and
\* nothing else.
C18_Witness ==
    /\ phase = "returned"
    /\ root = "ResearchSystem"
    /\ store[UserInputKey] = briefing_query
    /\ \A k \in ResearchKeys : store[k] = "text"
    /\ store["executive_summary"] = "text"
    /\ \A k \in Keys \ ({UserInputKey, "executive_summary"} \cup ResearchKeys) :
          store[k] = Absent

\* the transitions of one agent execution: Rendering, then model calls
\* ("Invoking") alternating with tool dispatches ("ToolLoop"), ending in
\* Completed after the call that returns the final text, or in Failed
AgentTransitions ==
    { <<"Pending", "Rendering">>,
      <<"Rendering", "Invoking">>, <<"Rendering", "Failed">>,
      <<"Invoking", "ToolLoop">>, <<"ToolLoop", "Invoking">>,
      <<"Invoking", "Completed">>, <<"Invoking", "Failed">>,
      <<"ToolLoop", "Failed">> }

\* a new execution of agent a begins: a new Runner call, or a caller's
\* tool-use loop dispatching to a as its tool
C20_NewExecution(a) ==
    /\ status[a] \in {"Pending"} \cup Terminal
    /\ status'[a] = "Pending"
    /\ \/ runs' = runs + 1
       \/ \E b \in Agents : /\ status[b] = "Invoking"
                            /\ status'[b] = "ToolLoop"
                            /\ calling'[b] = a

C20_Step ==
    \A a \in Agents :
        \/ status'[a] = status[a]
        \/ <<status[a], status'[a]>> \in AgentTransitions
        \/ C20_NewExecution(a)

C20_States ==
    \A a \in Agents :
        /\ status[a] \in {"Pending", "Rendering", "Invoking", "ToolLoop",
                          "Completed", "Failed"}
        /\ status[a] \in {"Invoking", "ToolLoop", "Completed"} =>
              /\ view[a] # NoView
              /\ \A k \in TemplateKeys[a] : view[a][k] \in Texts
        /\ status[a] \in {"Pending", "Rendering"} =>
              (attempts[a] = 0 /\ sleeps[a] = <<>> /\ toolIters[a] = 0)
        /\ status[a] = "ToolLoop" => a \in ToolUsers
        /\ status[a] = "Completed" <=> result[a] # NoResult
        /\ status[a] = "Failed" <=> failure[a] # NoFailure

\* C20: every agent execution moves only along Pending -> Rendering ->
\* model calls and tool dispatches -> Completed | Failed; a model call is made
\* only after the instruction rendered with every placeholder resolved; an
\* agent constructed without tools never enters ToolLoop; a Completed or
\* Failed agent changes state only when a new execution of it begins; and an
\* execution ends in exactly one of the two, Completed with a result and no
\* failure or Failed with a failure and no result.
C20_AgentStateMachine == []C20_States /\ [][C20_Step]_vars

\* C20 witness: of the three concurrent researchers one is in its second
\* tool iteration, one has completed and one has failed.
C20_Witness ==
    /\ status["TechResearcher"] = "ToolLoop"
    /\ toolIters["TechResearcher"] = 2
    /\ status["HealthResearcher"] = "Completed"
    /\ status["FinanceResearcher"] = "Failed"
    /\ failure["FinanceResearcher"].kind = "InvocationError"

====
